---- MODULE Spec2Model ----
(***************************************************************************)
(* Model of the KIB Knowledge Copilot answering pipeline:                  *)
(*   services/rag/app/answering.py, guardrails.py, rag.py, main.py,        *)
(*   schemas.py, services/api/app/routers/chat.py and                      *)
(*   services/ingestion/app/main.py, pipeline.py.                          *)
(*                                                                         *)
(* Python values are records [t, w, n]: t is the runtime type, w the       *)
(* content of a str as a sequence of tokens (words, whitespace, markers),  *)
(* n the content of an int or the number of a UUID.                        *)
(***************************************************************************)
EXTENDS Integers, Sequences, FiniteSets, TLC

VARIABLES pc, call, result, db, audit_logs, _MODEL, workers

vars == <<pc, call, result, db, audit_logs, _MODEL, workers>>

-----------------------------------------------------------------------------
(* Python values *)

None == [t |-> "none", w |-> <<>>, n |-> 0]

\* the value dict.get sees for an absent key, before its default applies
Missing == [t |-> "missing", w |-> <<>>, n |-> 0]

S(tokens) == [t |-> "str", w |-> tokens, n |-> 0]

I(k) == [t |-> "int", w |-> <<>>, n |-> k]

Uuid(k) == [t |-> "uuid", w |-> <<>>, n |-> k]

EmptyList == [t |-> "list", w |-> <<>>, n |-> 0]

\* dict.get(key, default)
DictGet(v, default) == IF v.t = "missing" THEN default ELSE v

\* str(v) as a token sequence
PyStr(v) ==
    CASE v.t = "str" -> v.w
      [] v.t = "int" -> <<ToString(v.n)>>
      [] v.t = "uuid" -> <<"id-" \o ToString(v.n)>>
      [] v.t = "none" -> <<"None">>
      [] v.t = "list" -> <<"[]">>
      [] OTHER -> <<"?">>

\* bool(v)
Truthy(v) ==
    CASE v.t = "str" -> v.w # <<>>
      [] v.t = "int" -> v.n # 0
      [] v.t = "uuid" -> TRUE
      [] OTHER -> FALSE

\* a == b
PyEq(a, b) == a.t = b.t /\ a.w = b.w /\ a.n = b.n

-----------------------------------------------------------------------------
(* str methods on token sequences *)

IsWs(tok) == tok \in {" ", "\n"}

RECURSIVE LStrip(_)
LStrip(s) == IF s # <<>> /\ IsWs(Head(s)) THEN LStrip(Tail(s)) ELSE s

RECURSIVE RStrip(_)
RStrip(s) ==
    IF s # <<>> /\ IsWs(s[Len(s)]) THEN RStrip(SubSeq(s, 1, Len(s) - 1)) ELSE s

\* str.strip()
Strip(s) == RStrip(LStrip(s))

\* str.replace("\n", " ")
ReplaceNl(s) == [i \in 1..Len(s) |-> IF s[i] = "\n" THEN " " ELSE s[i]]

\* str.split(): the maximal runs of non-whitespace tokens
RECURSIVE SplitFrom(_, _, _)
SplitFrom(s, i, cur) ==
    IF i > Len(s)
    THEN IF cur = <<>> THEN <<>> ELSE <<cur>>
    ELSE IF IsWs(s[i])
         THEN (IF cur = <<>> THEN <<>> ELSE <<cur>>) \o SplitFrom(s, i + 1, <<>>)
         ELSE SplitFrom(s, i + 1, Append(cur, s[i]))

Split(s) == SplitFrom(s, 1, <<>>)

\* " ".join(words)
RECURSIVE JoinSp(_)
JoinSp(ws) ==
    IF ws = <<>> THEN <<>>
    ELSE IF Len(ws) = 1 THEN ws[1]
    ELSE ws[1] \o <<" ">> \o JoinSp(Tail(ws))

-----------------------------------------------------------------------------
(* guardrails.py *)

REFUSAL_TEXT_EN ==
    <<"I", " ", "can't", " ", "answer", " ", "from", " ", "KIB's", " ",
      "approved", " ", "documents", " ", "for", " ", "this", " ", "question.">>

\* the Arabic sentence, transliterated word by word
REFUSAL_TEXT_AR ==
    <<"la", " ", "astatie", " ", "al-ijaba", " ", "min", " ", "mustanadat",
      " ", "KIB", " ", "al-mutamada", " ", "li-hadha", " ", "as-sual.">>

MISSING_INFO_EN == <<"No", " ", "approved", " ", "documents", " ", "matched.">>

MISSING_INFO_AR == <<"la", " ", "tujad", " ", "mustanadat", " ", "mutabiqa.">>

SAFE_NEXT_STEPS_EN ==
    <<S(<<"Search", " ", "by", " ", "policy.">>),
      S(<<"Include", " ", "the", " ", "section.">>),
      S(<<"Ask", " ", "about", " ", "a", " ", "form.">>)>>

SAFE_NEXT_STEPS_AR ==
    <<S(<<"ibhath", " ", "bi-ism", " ", "as-siyasa.">>),
      S(<<"udhkur", " ", "unwan", " ", "al-qism.">>),
      S(<<"isal", " ", "an", " ", "namudhaj.">>)>>

MaxQuoteWords == 25

HighMinCitations == 2

HighMinSimilarity == 70

MediumMinCitations == 1

MediumMinSimilarity == 55

safe_next_steps(language) ==
    LET steps == IF language = "ar" THEN SAFE_NEXT_STEPS_AR ELSE SAFE_NEXT_STEPS_EN
    IN  SubSeq(steps, 1, IF Len(steps) < 3 THEN Len(steps) ELSE 3)

\* a truncation that keeps every word
_truncate_words_NoLimit(text, max_words) == Strip(text)

_truncate_words(text, max_words) ==
    LET words == Split(Strip(text))
    IN  IF Len(words) <= max_words
        THEN Strip(text)
        ELSE JoinSp(SubSeq(words, 1, max_words))

_quote_snippet(text) == _truncate_words(Strip(ReplaceNl(text)), MaxQuoteWords)

\* a translation that names missing information at every confidence
translate_missing_info_Always(confidence, language) ==
    IF language = "ar" THEN S(MISSING_INFO_AR) ELSE S(MISSING_INFO_EN)

translate_missing_info(confidence, language) ==
    IF confidence # "low" THEN None
    ELSE IF language = "ar" THEN S(MISSING_INFO_AR)
    ELSE S(MISSING_INFO_EN)

\* language = "ar" if language == "ar" else "en"
NormLanguage(language) == IF language = "ar" THEN "ar" ELSE "en"

\* a refusal payload without safe_next_steps
build_refusal_payload_NoSteps(language) ==
    LET lang == NormLanguage(language)
    IN  [language |-> lang,
         answer |-> S(IF lang = "ar" THEN REFUSAL_TEXT_AR ELSE REFUSAL_TEXT_EN),
         confidence |-> "low",
         citations |-> <<>>,
         missing_info |-> translate_missing_info("low", lang)]

build_refusal_payload(language) ==
    LET lang == NormLanguage(language)
    IN  [language |-> lang,
         answer |-> S(IF lang = "ar" THEN REFUSAL_TEXT_AR ELSE REFUSAL_TEXT_EN),
         confidence |-> "low",
         citations |-> <<>>,
         missing_info |-> translate_missing_info("low", lang),
         safe_next_steps |-> safe_next_steps(lang)]

\* similarity of one row in hundredths: 1 - distance clamped to [0, 1]
Sim(dist) ==
    LET sim == 100 - dist
    IN  IF sim < 0 THEN 0 ELSE IF sim > 100 THEN 100 ELSE sim

RECURSIVE SumSims(_)
SumSims(rows) ==
    IF rows = <<>> THEN 0
    ELSE (IF Head(rows).distance.t = "none" THEN 0 ELSE Sim(Head(rows).distance.n))
         + SumSims(Tail(rows))

RECURSIVE CountSims(_)
CountSims(rows) ==
    IF rows = <<>> THEN 0
    ELSE (IF Head(rows).distance.t = "none" THEN 0 ELSE 1) + CountSims(Tail(rows))

\* avg_sim >= threshold, both in hundredths, without division
AvgSimAtLeast(rows, threshold) ==
    IF CountSims(rows) = 0
    THEN 0 >= threshold
    ELSE SumSims(rows) >= threshold * CountSims(rows)

\* a rule whose thresholds are exclusive
compute_confidence_Strict(rows, citations) ==
    IF citations = <<>> THEN "low"
    ELSE IF /\ Len(citations) >= HighMinCitations
            /\ CountSims(rows) > 0
            /\ SumSims(rows) > HighMinSimilarity * CountSims(rows)
         THEN "high"
    ELSE IF /\ Len(citations) >= MediumMinCitations
            /\ CountSims(rows) > 0
            /\ SumSims(rows) > MediumMinSimilarity * CountSims(rows)
         THEN "medium"
    ELSE "low"

\* a rule that never rates a single citation above low
compute_confidence_NeedsTwo(rows, citations) ==
    IF citations = <<>> THEN "low"
    ELSE IF Len(citations) >= HighMinCitations /\ AvgSimAtLeast(rows, HighMinSimilarity)
         THEN "high"
    ELSE IF Len(citations) >= HighMinCitations /\ AvgSimAtLeast(rows, MediumMinSimilarity)
         THEN "medium"
    ELSE "low"

\* a rule that rates exactly two citations high, and more than two medium
compute_confidence_ExactlyTwo(rows, citations) ==
    IF citations = <<>> THEN "low"
    ELSE IF Len(citations) = HighMinCitations /\ AvgSimAtLeast(rows, HighMinSimilarity)
         THEN "high"
    ELSE IF Len(citations) >= MediumMinCitations /\ AvgSimAtLeast(rows, MediumMinSimilarity)
         THEN "medium"
    ELSE "low"

compute_confidence(rows, citations) ==
    IF citations = <<>> THEN "low"
    ELSE IF Len(citations) >= HighMinCitations /\ AvgSimAtLeast(rows, HighMinSimilarity)
         THEN "high"
    ELSE IF Len(citations) >= MediumMinCitations /\ AvgSimAtLeast(rows, MediumMinSimilarity)
         THEN "medium"
    ELSE "low"

\* a matcher that looks at the document id alone
_find_matching_row_DocOnly(citation, rows) ==
    LET cit_doc_id == PyStr(DictGet(citation.doc_id, S(<<>>)))
        docOnly == {i \in 1..Len(rows) : PyStr(rows[i].document_id) = cit_doc_id}
    IN  IF docOnly # {} THEN CHOOSE i \in docOnly : \A j \in docOnly : i <= j
        ELSE 0

\* a matcher that falls back to the closest candidate when no document matches
_find_matching_row_AnyRow(citation, rows) ==
    LET cit_doc_id == PyStr(DictGet(citation.doc_id, S(<<>>)))
        cit_page == DictGet(citation.page_number, None)
        both == {i \in 1..Len(rows) :
                    /\ PyStr(rows[i].document_id) = cit_doc_id
                    /\ PyEq(rows[i].page_start, cit_page)}
        docOnly == {i \in 1..Len(rows) : PyStr(rows[i].document_id) = cit_doc_id}
        First(set) == CHOOSE i \in set : \A j \in set : i <= j
    IN  IF both # {} THEN First(both)
        ELSE IF docOnly # {} THEN First(docOnly)
        ELSE IF rows # <<>> THEN 1
        ELSE 0

\* index of the matching row in rows, 0 for no match
_find_matching_row(citation, rows) ==
    LET cit_doc_id == PyStr(DictGet(citation.doc_id, S(<<>>)))
        cit_page == DictGet(citation.page_number, None)
        both == {i \in 1..Len(rows) :
                    /\ PyStr(rows[i].document_id) = cit_doc_id
                    /\ PyEq(rows[i].page_start, cit_page)}
        docOnly == {i \in 1..Len(rows) : PyStr(rows[i].document_id) = cit_doc_id}
        First(set) == CHOOSE i \in set : \A j \in set : i <= j
    IN  IF both # {} THEN First(both)
        ELSE IF docOnly # {} THEN First(docOnly)
        ELSE 0

\* citation.get("quote") or row.get("text", "")
QuoteSource(citation, row) ==
    LET q == DictGet(citation.quote, None)
    IN  IF Truthy(q) THEN q ELSE DictGet(row.text, S(<<>>))

\* a normalisation that trusts the source_uri of the model's citation
NormalizedCitation_ModelUri(citation, row) ==
    [doc_title |-> DictGet(row.document_title, None),
     doc_id |-> S(PyStr(DictGet(row.document_id, None))),
     document_version |-> DictGet(row.document_version, None),
     page_number |-> DictGet(row.page_start, None),
     start_offset |-> DictGet(row.offset_start, None),
     end_offset |-> DictGet(row.offset_end, None),
     quote |-> S(_quote_snippet(QuoteSource(citation, row).w)),
     source_uri |-> DictGet(citation.source_uri, DictGet(row.source_uri, None))]

NormalizedCitation(citation, row) ==
    [doc_title |-> DictGet(row.document_title, None),
     doc_id |-> S(PyStr(DictGet(row.document_id, None))),
     document_version |-> DictGet(row.document_version, None),
     page_number |-> DictGet(row.page_start, None),
     start_offset |-> DictGet(row.offset_start, None),
     end_offset |-> DictGet(row.offset_end, None),
     quote |-> S(_quote_snippet(QuoteSource(citation, row).w)),
     source_uri |-> DictGet(row.source_uri, None)]

DedupKey(row) == <<PyStr(row.document_id), row.page_start>>

\* One iteration of the loop of normalize_citations over citations[i..]:
\* acc = [raised, normalized, used_rows, seen].  A citation that is not a
\* dict has no .get, and a truthy quote that is not a str has no .replace:
\* both raise AttributeError out of the loop.
RECURSIVE NormalizeFrom(_, _, _, _)
NormalizeFrom(citations, rows, i, acc) ==
    IF i > Len(citations) THEN acc
    ELSE LET citation == citations[i] IN
         IF citation.t # "dict"
         THEN [acc EXCEPT !.raised = TRUE]
         ELSE LET m == _find_matching_row(citation, rows) IN
              IF m = 0
              THEN NormalizeFrom(citations, rows, i + 1, acc)
              ELSE IF DedupKey(rows[m]) \in acc.seen
              THEN NormalizeFrom(citations, rows, i + 1, acc)
              ELSE IF QuoteSource(citation, rows[m]).t # "str"
              THEN [acc EXCEPT !.raised = TRUE]
              ELSE NormalizeFrom(citations, rows, i + 1,
                       [raised |-> FALSE,
                        normalized |-> Append(acc.normalized,
                                              NormalizedCitation(citation, rows[m])),
                        used_rows |-> Append(acc.used_rows, rows[m]),
                        seen |-> acc.seen \cup {DedupKey(rows[m])}])

\* a normalisation that keeps every matched citation, duplicates included
RECURSIVE NormalizeAll(_, _, _, _)
NormalizeAll(citations, rows, i, acc) ==
    IF i > Len(citations) THEN acc
    ELSE LET citation == citations[i] IN
         IF citation.t # "dict"
         THEN [acc EXCEPT !.raised = TRUE]
         ELSE LET m == _find_matching_row(citation, rows) IN
              IF m = 0
              THEN NormalizeAll(citations, rows, i + 1, acc)
              ELSE IF QuoteSource(citation, rows[m]).t # "str"
              THEN [acc EXCEPT !.raised = TRUE]
              ELSE NormalizeAll(citations, rows, i + 1,
                       [raised |-> FALSE,
                        normalized |-> Append(acc.normalized,
                                              NormalizedCitation(citation, rows[m])),
                        used_rows |-> Append(acc.used_rows, rows[m]),
                        seen |-> acc.seen \cup {DedupKey(rows[m])}])

normalize_citations_NoDedup(citations, rows) ==
    NormalizeAll(citations, rows, 1,
        [raised |-> FALSE, normalized |-> <<>>, used_rows |-> <<>>, seen |-> {}])

normalize_citations(citations, rows) ==
    NormalizeFrom(citations, rows, 1,
        [raised |-> FALSE, normalized |-> <<>>, used_rows |-> <<>>, seen |-> {}])

(* schemas.py *)

IsStr(v) == v.t = "str"

IsOptInt(v) == v.t \in {"int", "none"}

CitationRequired == {"doc_title", "doc_id", "document_version", "quote", "source_uri"}

CitationOptional == {"page_number", "start_offset", "end_offset"}

\* Citation(**c): no field outside the model's (extra = forbid), every
\* required field present and a str, the optional ones int or None
ValidCitation(c) ==
    /\ DOMAIN c \subseteq CitationRequired \cup CitationOptional
    /\ CitationRequired \subseteq DOMAIN c
    /\ \A f \in CitationRequired : IsStr(c[f])
    /\ \A f \in CitationOptional \cap DOMAIN c : IsOptInt(c[f])

ResponseRequired == {"language", "answer", "confidence", "citations", "safe_next_steps"}

ResponseOptional == {"missing_info"}

\* StrictRagResponse(**payload) does not raise ValidationError
StrictRagResponse(payload) ==
    /\ DOMAIN payload \subseteq ResponseRequired \cup ResponseOptional
    /\ ResponseRequired \subseteq DOMAIN payload
    /\ payload.language \in {"en", "ar"}
    /\ IsStr(payload.answer)
    /\ payload.confidence \in {"high", "medium", "low"}
    /\ \A i \in 1..Len(payload.citations) : ValidCitation(payload.citations[i])
    /\ "missing_info" \in DOMAIN payload => payload.missing_info.t \in {"str", "none"}
    /\ \A i \in 1..Len(payload.safe_next_steps) : IsStr(payload.safe_next_steps[i])

\* the ValidationError of line 194 leaving validate_or_refuse
ValidationErrorRaised == [raised |-> "ValidationError"]

\* a gate that returns whatever it is given
validate_or_refuse_PassThrough(payload, language) == payload

validate_or_refuse(payload, language) ==
    IF StrictRagResponse(payload)
    THEN payload
    ELSE LET fallback == build_refusal_payload(NormLanguage(language))
         IN  IF StrictRagResponse(fallback) THEN fallback ELSE ValidationErrorRaised

-----------------------------------------------------------------------------
(* answering.py: the sanitizer of answer_with_llm, lines 127-135.  The raw
   text is a token sequence; the token "J" stands for the serialized JSON
   document the model produced, "X" for any other text. *)

\* re.sub of line 128: every <think> up to the nearest </think> is removed
RECURSIVE RemoveThink(_)
RemoveThink(s) ==
    IF s = <<>> THEN <<>>
    ELSE IF Head(s) = "<think>" /\ \E j \in 2..Len(s) : s[j] = "</think>"
    THEN LET j == CHOOSE k \in 2..Len(s) :
                      /\ s[k] = "</think>"
                      /\ \A l \in 2..(k - 1) : s[l] # "</think>"
         IN  RemoveThink(SubSeq(s, j + 1, Len(s)))
    ELSE <<Head(s)>> \o RemoveThink(Tail(s))

\* the markdown code fence, three backticks
FENCE == "[fence]"

\* the matches of the fence pattern of line 133 that start at the fence s[i]:
\* j = 1 when the optional "json" is consumed, k whitespace tokens consumed
\* before the group, the group s[g..e], then whitespace up to a closing fence
FenceMatches(s, i) ==
    {m \in [j : {0, 1}, k : 0..Len(s), g : 1..Len(s), e : 1..Len(s)] :
        /\ s[i] = FENCE
        /\ m.j = 1 => (i + 1 <= Len(s) /\ s[i + 1] = "json")
        /\ m.g = i + 1 + m.j + m.k
        /\ \A x \in (i + 1 + m.j)..(m.g - 1) : IsWs(s[x])
        /\ m.e >= m.g
        /\ \E c \in (m.e + 1)..Len(s) :
              /\ s[c] = FENCE
              /\ \A x \in (m.e + 1)..(c - 1) : IsWs(s[x])}

\* the match the backtracking engine finds first: json greedily, then the
\* longest whitespace run, then the shortest group
BestFenceMatch(s, i) ==
    CHOOSE m \in FenceMatches(s, i) :
        \A o \in FenceMatches(s, i) :
            \/ m.j > o.j
            \/ (m.j = o.j /\ m.k > o.k)
            \/ (m.j = o.j /\ m.k = o.k /\ m.e <= o.e)

\* re.search: the leftmost position with a match; the stripped group
ExtractFence(s) ==
    LET starts == {i \in 1..Len(s) : FenceMatches(s, i) # {}}
    IN  IF starts = {} THEN s
        ELSE LET i == CHOOSE a \in starts : \A b \in starts : a <= b
                 m == BestFenceMatch(s, i)
             IN  Strip(SubSeq(s, m.g, m.e))

Sanitize(raw) ==
    LET c1 == Strip(RemoveThink(raw))
        c2 == IF c1 # <<>> /\ Head(c1) = "</think>" THEN Strip(Tail(c1)) ELSE c1
    IN  ExtractFence(c2)

\* the serialization of a JSON object whose answer string holds a fenced
\* snippet: the text up to the snippet, the snippet in its fence, the rest
JsonWithFence == <<"J<", FENCE, "X", FENCE, ">J">>

\* the texts that are exactly one JSON document
JsonDocuments == {<<"J">>, JsonWithFence}

\* json.loads(cleaned) succeeds: the text is exactly one JSON document
JsonLoadsOk(cleaned) == Strip(cleaned) \in JsonDocuments

(* answering.py: answer_with_llm *)

Returned(payload, meta) == [status |-> "returned", payload |-> payload, meta |-> meta]

Raised(exc) == [status |-> "raised", exc |-> exc]

\* meta of line 109
Meta(rows) ==
    [retrieved_chunk_ids |-> [i \in 1..Len(rows) |-> S(PyStr(rows[i].chunk_id))]]

\* an except branch that re-raises
GenerateFailed_Reraise(language, meta) == Raised("Exception")

\* the except branch of lines 121-123
GenerateFailed(language, meta) == Returned(build_refusal_payload(language), meta)

\* a refusal test that never recognises a refusal sentence
IsRefusalAnswer_Never(answer) == FALSE

\* a refusal test that knows the English sentence only
IsRefusalAnswer_EnglishOnly(answer) == answer = REFUSAL_TEXT_EN

\* answer in {REFUSAL_TEXT_EN, REFUSAL_TEXT_AR}, line 150
IsRefusalAnswer(answer) == answer \in {REFUSAL_TEXT_EN, REFUSAL_TEXT_AR}

\* provider = [kind |-> "raise"] or [kind |-> "text", raw |-> tokens, data |-> JSON value]
answer_with_llm(rows, language0, provider) ==
    LET language == NormLanguage(language0)
        meta == Meta(rows)
        refusal == Returned(build_refusal_payload(language), meta)
    IN  IF rows = <<>> THEN refusal
        ELSE IF provider.kind = "raise" THEN GenerateFailed(language, meta)
        ELSE IF ~JsonLoadsOk(Sanitize(provider.raw)) THEN refusal
        ELSE LET data == provider.data IN
             IF data.t # "dict" THEN refusal
        ELSE LET answer == Strip(PyStr(DictGet(data.answer, S(<<>>))))
                 citations == DictGet(data.citations, [t |-> "none", items |-> <<>>])
             IN
             IF IsRefusalAnswer(answer) THEN refusal
        ELSE IF citations.t # "list" \/ citations.items = <<>> THEN refusal
        ELSE LET norm == normalize_citations(citations.items, rows) IN
             IF norm.raised THEN Raised("AttributeError")
        ELSE IF norm.normalized = <<>> THEN refusal
        ELSE IF answer = <<>> THEN refusal
        ELSE LET confidence == compute_confidence(norm.used_rows, norm.normalized)
                 payload == [language |-> language,
                             answer |-> S(answer),
                             confidence |-> confidence,
                             citations |-> norm.normalized,
                             missing_info |-> translate_missing_info(confidence, language),
                             safe_next_steps |-> safe_next_steps(language)]
                 gated == validate_or_refuse(payload, language)
             IN  IF gated = ValidationErrorRaised
                 THEN Raised("ValidationError")
                 ELSE Returned(gated, meta)

-----------------------------------------------------------------------------
(* Inputs: candidate rows as retrieve_chunks selects them (rag.py 79-93),
   and the outputs a generative model can produce. *)

MaxRows == 2

MaxCitations == 2

Words(k) == [i \in 1..(2 * k - 1) |-> IF i % 2 = 1 THEN "w" ELSE " "]

Row(chunk, doc, ver, page, os, oe, dist, status, text) ==
    [chunk_id |-> Uuid(chunk),
     text |-> S(text),
     page_start |-> page,
     offset_start |-> I(os),
     offset_end |-> I(oe),
     document_version |-> S(<<ver>>),
     document_id |-> Uuid(doc),
     document_title |-> S(<<"Policy", " ", ToString(doc)>>),
     document_status |-> status,
     source_uri |-> S(<<"/docs/", ToString(doc), "/", ver>>),
     distance |-> I(dist)]

\* doc 1 page 1 twice (two chunks of one page), doc 1 page 2, doc 2 without page
RowPool ==
    {Row(11, 1, "v1", I(1), 0, 10, 20, "approved", <<"KIB", " ", "offers", "\n", "savings.">>),
     Row(12, 1, "v1", I(1), 10, 20, 95, "approved", Words(MaxQuoteWords + 1)),
     Row(13, 1, "v1", I(2), 20, 30, 40, "approved", <<"Fees", " ", "apply.">>),
     Row(21, 2, "v3", None, 0, 10, 25, "approved", <<"Limits", " ", "apply.">>)}

\* the lists of length 0..n without repetition
RECURSIVE InjSeqs(_, _)
InjSeqs(set, n) ==
    IF n = 0 THEN {<<>>}
    ELSE LET shorter == InjSeqs(set, n - 1)
         IN  shorter \cup
             {Append(q, x) : <<q, x>> \in
                 {p \in shorter \X set :
                     Len(p[1]) = n - 1 /\ \A i \in 1..Len(p[1]) : p[1][i] # p[2]}}

\* the lists of length 0..n
RECURSIVE SeqsUpTo(_, _)
SeqsUpTo(set, n) ==
    IF n = 0 THEN {<<>>}
    ELSE LET shorter == SeqsUpTo(set, n - 1)
         IN  shorter \cup
             {Append(p[1], p[2]) : p \in {q \in shorter \X set : Len(q[1]) = n - 1}}

RowLists == InjSeqs(RowPool, MaxRows)

\* one element of the model's "citations" list; the metadata fields other
\* than doc_id, page_number and quote are never read by the code
Cit(doc_id, page_number, quote) ==
    [t |-> "dict", doc_id |-> doc_id, page_number |-> page_number, quote |-> quote,
     document_version |-> S(<<"v9">>), source_uri |-> S(<<"/docs/invented">>),
     start_offset |-> I(7), end_offset |-> I(8)]

NonDictCit ==
    [t |-> "str", doc_id |-> Missing, page_number |-> Missing, quote |-> Missing,
     document_version |-> Missing, source_uri |-> Missing,
     start_offset |-> Missing, end_offset |-> Missing]

CitPool ==
    {Cit(S(<<"id-1">>), I(1), S(<<"KIB", " ", "offers">>)),
     Cit(S(<<"id-1">>), I(2), Missing),
     Cit(S(<<"id-1">>), I(7), S(Words(MaxQuoteWords + 2))),
     Cit(S(<<"id-2">>), Missing, S(<<>>)),
     Cit(S(<<"id-9">>), I(1), S(<<"invented">>)),
     Cit(S(<<"id-1">>), I(1), I(5)),
     NonDictCit}

CitationsFields ==
    {[t |-> "missing", items |-> <<>>], [t |-> "str", items |-> <<>>]}
    \cup {[t |-> "list", items |-> q] : q \in SeqsUpTo(CitPool, MaxCitations)}

GoodAnswer == <<" ", "The", " ", "fee", " ", "is", " ", "5.", "\n">>

AnswerPool ==
    {Missing, None, S(<<" ">>), S(GoodAnswer),
     S(<<" ">> \o REFUSAL_TEXT_EN \o <<"\n">>), S(REFUSAL_TEXT_AR)}

Dict(answer, citations) == [t |-> "dict", answer |-> answer, citations |-> citations]

NonDict(t) == [t |-> t, answer |-> Missing, citations |-> [t |-> "missing", items |-> <<>>]]

DataPool ==
    {Dict(a, c) : a \in AnswerPool, c \in CitationsFields}
    \cup {NonDict("list"), NonDict("str")}

\* a few documents for the texts that wrap or replace the JSON document
SmallData ==
    {Dict(S(GoodAnswer), [t |-> "list", items |-> <<c>>]) :
        c \in {Cit(S(<<"id-1">>), I(1), S(<<"KIB", " ", "offers">>)),
               Cit(S(<<"id-9">>), I(1), S(<<"invented">>))}}

WrappedTexts ==
    {<<"<think>", "X", "</think>", "\n", FENCE, "json", "\n", "J", "\n", FENCE>>,
     <<FENCE, "J", FENCE>>,
     <<"X", " ", FENCE, "json", "\n", "J", "\n", FENCE, " ", "X">>,
     <<"<think>", "X", "</think>", "<think>", "X", "</think>", "J">>,
     <<"</think>", "\n", "J">>,
     <<"<think>", "J", "</think>">>,
     <<"X", " ", "J">>,
     <<"X">>,
     <<>>}

Text(raw, data) == [kind |-> "text", raw |-> raw, data |-> data]

\* a document whose answer quotes a command in a code fence
FenceAnswerData ==
    Dict(S(<<"Run", " ", FENCE, "X", FENCE, " ", "first.">>),
         [t |-> "list", items |-> <<Cit(S(<<"id-1">>), I(1), S(<<"KIB", " ", "offers">>))>>])

Providers ==
    {[kind |-> "raise"]}
    \cup {Text(<<"J">>, d) : d \in DataPool}
    \cup {Text(w, d) : w \in WrappedTexts, d \in SmallData}
    \cup {Text(JsonWithFence, FenceAnswerData)}

Languages == {"en", "ar", "fr"}

-----------------------------------------------------------------------------
(* Direct calls of answer_with_llm, as the tests make them *)

\* _MODEL = None, pipeline.py line 8
NoModel == [by |-> 0, complete |-> FALSE]

\* the object SentenceTransformer(settings.embedding_model) returns to the
\* caller by: the constructor has run to its end
SentenceTransformer(by) == [by |-> by, complete |-> TRUE]

\* the value of _MODEL after a call of _get_model that nothing interleaves
\* with: the handler is a coroutine and calls embed_texts without awaiting
_get_model(model) == IF model = NoModel THEN SentenceTransformer(1) ELSE model

NoCall == [op |-> "none"]

NoResult == [status |-> "none"]

NoDb == [docs |-> <<>>]

InitLlm ==
    /\ pc = "idle"
    /\ call = NoCall
    /\ result = NoResult
    /\ db = NoDb
    /\ audit_logs = <<>>
    /\ _MODEL = NoModel
    /\ workers = <<>>

AnswerWithLlm ==
    /\ pc = "idle"
    /\ \E rows \in RowLists, language \in Languages, provider \in Providers :
          /\ call' = [op |-> "answer_with_llm", rows |-> rows,
                      language |-> language, provider |-> provider]
          /\ result' = answer_with_llm(rows, language, provider)
    /\ pc' = "done"
    /\ UNCHANGED <<db, audit_logs, _MODEL, workers>>

NextLlm == AnswerWithLlm

SpecLlm == InitLlm /\ [][NextLlm]_vars

-----------------------------------------------------------------------------
(* The document store, ingestion/app/main.py, and the /rag/answer handler,
   rag/app/rag.py and rag/app/main.py.  db.docs maps the id of an ingested
   document to its status, its access_tags (a jsonb object: a set of
   key/value pairs), the roles of its document_acl rows and whether its
   chunks have embeddings of the current model. *)

DocIds == {r.document_id.n : r \in RowPool}

Roles == {"front_desk", "compliance"}

Statuses == {"approved", "draft"}

TagSets == {{}, {<<"dept", "hr">>}}

AttributeSets == {{}, {<<"dept", "hr">>}, {<<"dept", "it">>}}

RoleLists == {<<>>, <<"front_desk">>, <<"compliance">>, <<"front_desk", "compliance">>}

TopKs == {1, 5}

Range(f) == {f[i] : i \in DOMAIN f}

\* POST /ingest: documents, document_acl and, for an approved document only,
\* embeddings, computed by embed_texts with the model of _get_model
Ingest ==
    /\ pc = "idle"
    /\ \E d \in DocIds \ DOMAIN db.docs, status \in Statuses,
          tags \in TagSets, acl \in SUBSET Roles :
          /\ db' = [docs |-> [x \in DOMAIN db.docs \cup {d} |->
                       IF x = d
                       THEN [status |-> status, access_tags |-> tags, acl |-> acl,
                             indexed |-> status = "approved"]
                       ELSE db.docs[x]]]
          /\ _MODEL' = IF status = "approved" THEN _get_model(_MODEL) ELSE _MODEL
    /\ UNCHANGED <<pc, call, result, audit_logs, workers>>

\* d.access_tags <@ attributes::jsonb
Contained(tags, attributes) == tags \subseteq attributes

\* an access query without the empty-roles guard that treats a caller
\* without roles as unrestricted
get_accessible_document_ids_NoGuard(docs, role_names, attributes) ==
    {PyStr(Uuid(d)) : d \in {x \in DOMAIN docs :
        /\ docs[x].status = "approved"
        /\ (role_names = <<>> \/ docs[x].acl \cap Range(role_names) # {})
        /\ (attributes = {} \/ Contained(docs[x].access_tags, attributes))}}

\* the ids, as strings, the queries of lines 39-62 select
get_accessible_document_ids(docs, role_names, attributes) ==
    IF role_names = <<>> THEN {}
    ELSE IF attributes # {}
    THEN {PyStr(Uuid(d)) : d \in {x \in DOMAIN docs :
             /\ docs[x].status = "approved"
             /\ docs[x].acl \cap Range(role_names) # {}
             /\ Contained(docs[x].access_tags, attributes)}}
    ELSE {PyStr(Uuid(d)) : d \in {x \in DOMAIN docs :
             /\ docs[x].status = "approved"
             /\ docs[x].acl \cap Range(role_names) # {}}}

\* ORDER BY d.title: the title of document d is "Policy d"
RECURSIVE SortByTitle(_)
SortByTitle(ds) ==
    IF ds = {} THEN <<>>
    ELSE LET d == CHOOSE x \in ds : \A y \in ds : x <= y
         IN  <<d>> \o SortByTitle(ds \ {d})

\* api/app/routers/documents.py list_documents without language and q: the
\* ids of the documents GET /documents lists for a user, in the order of the
\* response
list_documents(docs, roles, attributes) ==
    IF roles = <<>> THEN <<>>
    ELSE LET listed == SortByTitle({x \in DOMAIN docs :
                           /\ docs[x].acl \cap Range(roles) # {}
                           /\ docs[x].status = "approved"
                           /\ Contained(docs[x].access_tags, attributes)})
         IN  [i \in 1..Len(listed) |-> PyStr(Uuid(listed[i]))]

\* ORDER BY distance
RECURSIVE SortByDistance(_)
SortByDistance(rows) ==
    IF rows = {} THEN <<>>
    ELSE LET r == CHOOSE x \in rows : \A y \in rows : x.distance.n <= y.distance.n
         IN  <<r>> \o SortByDistance(rows \ {r})

\* the rows the query of lines 77-106 selects
retrieve_chunks(docs, allowed_doc_ids, top_k) ==
    IF allowed_doc_ids = {} THEN <<>>
    ELSE LET hits == {[r EXCEPT !.document_status = docs[r.document_id.n].status] :
                         r \in {x \in RowPool :
                            /\ x.document_id.n \in DOMAIN docs
                            /\ PyStr(x.document_id) \in allowed_doc_ids
                            /\ docs[x.document_id.n].status = "approved"
                            /\ docs[x.document_id.n].indexed}}
             sorted == SortByDistance(hits)
         IN  SubSeq(sorted, 1, IF Len(sorted) < top_k THEN Len(sorted) ELSE top_k)

filter_rows_by_doc_ids(rows, allowed_doc_ids) ==
    LET Keep(row) == PyStr(row.document_id) \in allowed_doc_ids
    IN  SelectSeq(rows, Keep)

\* a status filter that keeps every row
filter_rows_by_status_KeepAll(rows, status) == rows

filter_rows_by_status(rows, status) ==
    LET Keep(row) == row.document_status = status
    IN  SelectSeq(rows, Keep)

rerank_chunks(rows) == rows

\* the outputs of the configured provider in the handler runs
HandlerProviders ==
    {[kind |-> "raise"]} \cup {Text(<<"J">>, d) : d \in SmallData}

\* the blocking call that fails in a run, if it is issued at all
Faults == {"none", "access_query", "embed", "search"}

HistoryLimit == 6

Turn(role, k) == [role |-> role, text |-> S(<<"turn", " ", ToString(k)>>)]

Histories ==
    {<<>>,
     [k \in 1..(HistoryLimit + 1) |-> Turn(IF k % 2 = 1 THEN "user" ELSE "assistant", k)]}

\* the histories of a /rag/answer request: none, two turns, seven turns
AnswerHistories ==
    Histories \cup {<<Turn("user", 1), Turn("assistant", 2)>>}

\* the argument history of answer_with_llm: a list of turns, or left out
HistoryArgument(turns) == [given |-> TRUE, turns |-> turns]

\* history: List[Tuple[str, str]] = None, answering.py line 106
DefaultHistory == [given |-> FALSE, turns |-> <<>>]

\* request.history[-6:] and history[-6:]
LastTurns(history) ==
    SubSeq(history,
           IF Len(history) > HistoryLimit THEN Len(history) - HistoryLimit + 1 ELSE 1,
           Len(history))

\* the turns of the history block of the user prompt, lines 69-75
_build_user_prompt(history) ==
    IF ~history.given \/ history.turns = <<>>
    THEN <<>>
    ELSE LET turns == LastTurns(history.turns)
         IN  [i \in 1..Len(turns) |->
                 [label |-> IF turns[i].role = "user" THEN "User" ELSE "Assistant",
                  text |-> turns[i].text]]

NoPrompt == [sent |-> FALSE, history |-> <<>>]

\* the prompt answer_with_llm hands to provider.generate, line 115; it
\* returns before building one when there are no rows
UserPrompt(rows, history) ==
    IF rows = <<>> THEN NoPrompt
    ELSE [sent |-> TRUE, history |-> _build_user_prompt(history)]

Http500(failed, allowed, rows, prompt) ==
    [status |-> 500, failed |-> failed, allowed_doc_ids |-> allowed, rows |-> rows,
     prompt |-> prompt]

Http200(payload, allowed, rows, meta, prompt) ==
    [status |-> 200, failed |-> "none", allowed_doc_ids |-> allowed, rows |-> rows,
     payload |-> payload, retrieved_chunk_ids |-> meta.retrieved_chunk_ids,
     prompt |-> prompt]

\* main.py answer(): nothing catches an exception of the queries, of the
\* embedding call or of answer_with_llm, so it leaves the handler; the call
\* of answer_with_llm, lines 29-35, has no history argument
answer(docs, request, fault, provider) ==
    IF request.role_names # <<>> /\ fault = "access_query"
    THEN Http500("access_query", {}, <<>>, NoPrompt)
    ELSE LET allowed_doc_ids ==
                 get_accessible_document_ids(docs, request.role_names, request.attributes)
         IN
         IF allowed_doc_ids # {} /\ fault \in {"embed", "search"}
         THEN Http500(fault, allowed_doc_ids, <<>>, NoPrompt)
         ELSE LET rows == retrieve_chunks(docs, allowed_doc_ids, request.top_k)
                  reranked == rerank_chunks(filter_rows_by_status(
                                  filter_rows_by_doc_ids(rows, allowed_doc_ids), "approved"))
                  res == answer_with_llm(reranked, request.language, provider)
                  prompt == UserPrompt(reranked, DefaultHistory)
              IN  IF res.status = "raised"
                  THEN Http500("answer_with_llm", allowed_doc_ids, reranked, prompt)
                  ELSE IF ~StrictRagResponse(res.payload)
                  THEN Http500("response_model", allowed_doc_ids, reranked, prompt)
                  ELSE Http200(res.payload, allowed_doc_ids, reranked, Meta(reranked),
                               prompt)

InitAnswer ==
    /\ pc = "idle"
    /\ call = NoCall
    /\ result = NoResult
    /\ db = NoDb
    /\ audit_logs = <<>>
    /\ _MODEL = NoModel
    /\ workers = <<>>

Answer ==
    /\ pc = "idle"
    /\ \E role_names \in RoleLists, attributes \in AttributeSets,
          language \in {"en", "ar"}, top_k \in TopKs, history \in AnswerHistories,
          fault \in Faults, provider \in HandlerProviders :
          LET request == [role_names |-> role_names, attributes |-> attributes,
                          language |-> language, top_k |-> top_k,
                          history |-> history]
          IN  /\ call' = [op |-> "answer", request |-> request,
                          fault |-> fault, provider |-> provider]
              /\ result' = answer(db.docs, request, fault, provider)
    /\ pc' = "done"
    /\ UNCHANGED <<db, audit_logs, _MODEL, workers>>

NextAnswer == Ingest \/ Answer

SpecAnswer == InitAnswer /\ [][NextAnswer]_vars

-----------------------------------------------------------------------------
(* The /chat handler of the API service, api/app/routers/chat.py *)

MaxAuditLogs == 2

\* what the RAG service answers: a transport or HTTP error, or a payload
\* with the X-Retrieved-Chunk-Ids header
RagHttpError == [kind |-> "http_error"]

RagOk(rows, language, provider) ==
    LET res == answer_with_llm(rows, language, provider)
    IN  [kind |-> "ok", data |-> res.payload, chunk_ids |-> res.meta.retrieved_chunk_ids]

ChatRows ==
    {<<>>} \cup {<<r>> : r \in {x \in RowPool : x.chunk_id.n \in {11, 12}}}

RagOutcomes ==
    [language \in {"en", "ar"} |->
        {RagHttpError}
        \cup {RagOk(rows, language, provider) :
                 rows \in ChatRows,
                 provider \in {Text(<<"J">>, d) : d \in SmallData}}]

\* _parse_uuid_list of the header: the entries that are UUID strings
_parse_uuid_list(chunk_ids) ==
    LET IsUuidString(v) == v.t = "str" /\ Len(v.w) = 1 IN
    SelectSeq(chunk_ids, IsUuidString)

\* ChatResponse(**data), api/app/schemas.py
ChatResponse(data) == StrictRagResponse(data)

AuditFaults == {"none", "ensure_user", "insert"}

\* the row of the INSERT INTO audit_logs
AuditRow(user, request, rag) ==
    [role_names |-> user.roles,
     query |-> request.question,
     request_language |-> request.language,
     response_language |-> rag.data.language,
     retrieved_chunk_ids |-> _parse_uuid_list(rag.chunk_ids),
     answer |-> rag.data.answer,
     retrieval_meta |-> [confidence |-> rag.data.confidence,
                         missing_info |-> rag.data.missing_info]]

\* the response of chat() and the audit_logs table after it; an exception
\* inside the with block rolls the transaction back and leaves the handler
chat(logs, user, request, rag, fault) ==
    IF rag.kind = "http_error"
    THEN [response |-> [status |-> 502, failed |-> "rag"], logs |-> logs]
    ELSE IF fault # "none"
    THEN [response |-> [status |-> 500, failed |-> fault], logs |-> logs]
    ELSE LET logged == Append(logs, AuditRow(user, request, rag)) IN
         IF ChatResponse(rag.data)
         THEN [response |-> [status |-> 200, failed |-> "none", payload |-> rag.data],
               logs |-> logged]
         ELSE [response |-> [status |-> 500, failed |-> "response_model"],
               logs |-> logged]

InitChat ==
    /\ pc = "idle"
    /\ call = NoCall
    /\ result = NoResult
    /\ db = NoDb
    /\ audit_logs = <<>>
    /\ _MODEL = NoModel
    /\ workers = <<>>

Chat ==
    /\ Len(audit_logs) < MaxAuditLogs
    /\ \E roles \in {<<>>, <<"front_desk">>}, language \in {"en", "ar"},
          history \in Histories, fault \in AuditFaults :
          \E rag \in RagOutcomes[language] :
             LET user == [subject |-> "u1", roles |-> roles, attributes |-> {}]
                 request == [question |-> S(<<"What", " ", "fee?">>),
                             language |-> language, top_k |-> 5, history |-> history]
                 rag_request == [question |-> request.question,
                                 language |-> request.language,
                                 top_k |-> request.top_k,
                                 user |-> [id |-> user.subject,
                                           role_names |-> user.roles,
                                           attributes |-> user.attributes],
                                 history |-> LastTurns(request.history)]
                 out == chat(audit_logs, user, request, rag, fault)
             IN  /\ call' = [op |-> "chat", rag_request |-> rag_request,
                             rag |-> rag, fault |-> fault]
                 /\ result' = out.response
                 /\ audit_logs' = out.logs
    /\ pc' = "done"
    /\ UNCHANGED <<db, _MODEL, workers>>

NextChat == Chat

SpecChat == InitChat /\ [][NextChat]_vars

-----------------------------------------------------------------------------
(* Scoring, answering.py lines 160-170: normalize_citations followed by
   compute_confidence over the rows it used, on candidates whose distances
   lie on and around the two thresholds, outside [0, 1], or are absent. *)

MaxScoreCitations == 3

\* distances in hundredths; None is a row without a distance
ScoreDistances == {None, I(0 - 10), I(20), I(30), I(31), I(45), I(46), I(150)}

\* document 1 page 1, document 1 page 2 and document 2, each at every distance
ScoreRowPool ==
    {[Row(100 * p[1] + p[2], p[1], "v1", I(p[2]), 10 * p[2], 10 * p[2] + 10, 0,
          "approved", <<"Fees", " ", "apply.">>) EXCEPT !.distance = d] :
        p \in {<<1, 1>>, <<1, 2>>, <<2, 1>>}, d \in ScoreDistances}

ScoreRowLists ==
    {q \in InjSeqs(ScoreRowPool, MaxRows) :
        \A i, j \in 1..Len(q) : i # j => q[i].chunk_id # q[j].chunk_id}

\* the row lists in which the chunks keep one order: they differ in length
\* and distances only
SlotRowLists ==
    {q \in ScoreRowLists :
        \A i, j \in 1..Len(q) : i < j => q[i].chunk_id.n < q[j].chunk_id.n}

ScoreCitPool ==
    {Cit(S(<<"id-1">>), I(1), Missing),
     Cit(S(<<"id-1">>), I(2), Missing),
     Cit(S(<<"id-2">>), I(1), Missing),
     Cit(S(<<"id-9">>), I(1), Missing)}

ScoreCitLists == SeqsUpTo(ScoreCitPool, MaxCitations)

\* the citation lists compute_confidence is called with directly
CitationCounts == {[i \in 1..n |-> Cit(S(<<"id-1">>), I(i), Missing)] :
                      n \in 0..MaxScoreCitations}

InitScore ==
    /\ pc = "idle"
    /\ call = NoCall
    /\ result = NoResult
    /\ db = NoDb
    /\ audit_logs = <<>>
    /\ _MODEL = NoModel
    /\ workers = <<>>

\* lines 160 and 170 of answer_with_llm
Score ==
    /\ pc = "idle"
    /\ \E rows \in ScoreRowLists, citations \in ScoreCitLists :
          LET norm == normalize_citations(citations, rows)
          IN  /\ call' = [op |-> "score", rows |-> rows, citations |-> citations]
              /\ result' = [status |-> "returned",
                            normalized |-> norm.normalized,
                            used_rows |-> norm.used_rows,
                            confidence |-> compute_confidence(norm.used_rows,
                                                              norm.normalized)]
    /\ pc' = "done"
    /\ UNCHANGED <<db, audit_logs, _MODEL, workers>>

\* compute_confidence called on two inputs, as a test compares them
CompareConfidence ==
    /\ pc = "idle"
    /\ \E rows1 \in SlotRowLists, rows2 \in SlotRowLists,
          citations1 \in CitationCounts, citations2 \in CitationCounts :
          /\ Len(rows1) <= 1
          /\ call' = [op |-> "compare", rows1 |-> rows1, citations1 |-> citations1,
                      rows2 |-> rows2, citations2 |-> citations2]
          /\ result' = [status |-> "returned",
                        confidence1 |-> compute_confidence(rows1, citations1),
                        confidence2 |-> compute_confidence(rows2, citations2)]
    /\ pc' = "done"
    /\ UNCHANGED <<db, audit_logs, _MODEL, workers>>

\* the citations _find_matching_row is called with: with and without a page,
\* with a page that is a string, without a doc_id
MatchCitPool ==
    ScoreCitPool
    \cup {Cit(S(<<"id-1">>), Missing, Missing),
          Cit(S(<<"id-1">>), S(<<"1">>), Missing),
          Cit(Missing, I(1), Missing)}

\* the call of _find_matching_row of guardrails.py line 163; the row is given
\* by its position in rows, 0 is None
FindMatchingRow ==
    /\ pc = "idle"
    /\ \E citation \in MatchCitPool, rows \in ScoreRowLists :
          /\ call' = [op |-> "match", citation |-> citation, rows |-> rows]
          /\ result' = [status |-> "returned", row |-> _find_matching_row(citation, rows)]
    /\ pc' = "done"
    /\ UNCHANGED <<db, audit_logs, _MODEL, workers>>

NextScore == Score \/ CompareConfidence \/ FindMatchingRow

SpecScore == InitScore /\ [][NextScore]_vars

-----------------------------------------------------------------------------
(* The schema gate, guardrails.py validate_or_refuse, on payloads that conform
   to StrictRagResponse and on payloads that lack a field, carry a field the
   schema does not have or hold a value of the wrong type *)

\* the dict without the key f
Without(r, f) == [x \in DOMAIN r \ {f} |-> r[x]]

\* the dict with r[f] = v
With(r, f, v) == [x \in DOMAIN r \cup {f} |-> IF x = f THEN v ELSE r[x]]

GoodCitation ==
    [doc_title |-> S(<<"Policy", " ", "1">>),
     doc_id |-> S(<<"id-1">>),
     document_version |-> S(<<"v1">>),
     page_number |-> I(1),
     start_offset |-> I(0),
     end_offset |-> I(10),
     quote |-> S(<<"KIB", " ", "offers">>),
     source_uri |-> S(<<"/docs/1/v1">>)]

GateCitations ==
    {GoodCitation,
     Without(GoodCitation, "page_number"),
     With(GoodCitation, "page_number", None),
     Without(GoodCitation, "quote"),
     With(GoodCitation, "score", I(1)),
     With(GoodCitation, "doc_title", None),
     With(GoodCitation, "page_number", S(<<"two">>))}

AcceptedPayload(citations) ==
    [language |-> "en",
     answer |-> S(Strip(GoodAnswer)),
     confidence |-> "high",
     citations |-> citations,
     missing_info |-> None,
     safe_next_steps |-> safe_next_steps("en")]

GateBase ==
    {build_refusal_payload("en"), build_refusal_payload("ar")}
    \cup {AcceptedPayload(<<GoodCitation, c>>) : c \in GateCitations}

GateEdits(p) ==
    {p}
    \cup {Without(p, f) : f \in DOMAIN p}
    \cup {With(p, "trace_id", S(<<"t-1">>)),
          With(p, "language", "fr"),
          With(p, "confidence", "certain"),
          With(p, "answer", None),
          With(p, "answer", I(5)),
          With(p, "missing_info", I(0)),
          With(p, "safe_next_steps", <<I(1)>>)}

GatePayloads == UNION {GateEdits(p) : p \in GateBase}

InitGate ==
    /\ pc = "idle"
    /\ call = NoCall
    /\ result = NoResult
    /\ db = NoDb
    /\ audit_logs = <<>>
    /\ _MODEL = NoModel
    /\ workers = <<>>

\* validate_or_refuse applied to a payload, and once more to what it returned
ValidateOrRefuse ==
    /\ pc = "idle"
    /\ \E payload \in GatePayloads, language \in Languages :
          LET once == validate_or_refuse(payload, language)
          IN  /\ call' = [op |-> "validate_or_refuse", payload |-> payload,
                          language |-> language]
              /\ result' = [status |-> "returned", payload |-> once,
                            again |-> validate_or_refuse(once, language)]
    /\ pc' = "done"
    /\ UNCHANGED <<db, audit_logs, _MODEL, workers>>

NextGate == ValidateOrRefuse

SpecGate == InitGate /\ [][NextGate]_vars

-----------------------------------------------------------------------------
(* The row filters of the /rag/answer handler, main.py lines 24-26, applied
   to any list a retriever could hand over: rows of documents outside the
   allowed set and rows of documents that are not approved included *)

FilterRowPool ==
    {[r EXCEPT !.document_status = status] : r \in RowPool, status \in Statuses}

FilterRowLists ==
    {q \in InjSeqs(FilterRowPool, MaxRows) :
        \A i, j \in 1..Len(q) : i # j => q[i].chunk_id # q[j].chunk_id}

\* allowed_doc_ids as get_accessible_document_ids returns them: strings
AllowedSets == SUBSET {PyStr(Uuid(d)) : d \in DocIds \cup {3}}

InitFilter ==
    /\ pc = "idle"
    /\ call = NoCall
    /\ result = NoResult
    /\ db = NoDb
    /\ audit_logs = <<>>
    /\ _MODEL = NoModel
    /\ workers = <<>>

\* rows = filter_rows_by_doc_ids(rows, allowed_doc_ids);
\* rows = filter_rows_by_status(rows); reranked = rerank_chunks(rows)
RowFilter ==
    /\ pc = "idle"
    /\ \E retrieved \in FilterRowLists, allowed_doc_ids \in AllowedSets :
          /\ call' = [op |-> "row_filter", retrieved |-> retrieved,
                      allowed_doc_ids |-> allowed_doc_ids]
          /\ result' = [status |-> "returned",
                        rows |-> rerank_chunks(filter_rows_by_status(
                                     filter_rows_by_doc_ids(retrieved, allowed_doc_ids),
                                     "approved"))]
    /\ pc' = "done"
    /\ UNCHANGED <<db, audit_logs, _MODEL, workers>>

NextFilter == RowFilter

SpecFilter == InitFilter /\ [][NextFilter]_vars

-----------------------------------------------------------------------------
(* First use of the embedding model from several threads of the ingestion
   process, ingestion/app/pipeline.py lines 8-15.  workers[t] is the position
   of thread t in _get_model, the object it constructed and the object it
   returned.  The interpreter can switch threads between any two bytecodes:
   the test of _MODEL, the constructor call, the store and the final load
   are separate steps. *)

MaxThreads == 3

Threads == 1..MaxThreads

InitLazy ==
    /\ pc = "idle"
    /\ call = NoCall
    /\ result = NoResult
    /\ db = NoDb
    /\ audit_logs = <<>>
    /\ _MODEL = NoModel
    /\ workers = [t \in Threads |->
                     [pc |-> "test", built |-> NoModel, returned |-> NoModel]]

\* if _MODEL is None:
TestModel(t) ==
    /\ workers[t].pc = "test"
    /\ workers' = [workers EXCEPT
                      ![t].pc = IF _MODEL = NoModel THEN "construct" ELSE "return"]
    /\ UNCHANGED <<pc, call, result, db, audit_logs, _MODEL>>

\* SentenceTransformer(settings.embedding_model)
ConstructModel(t) ==
    /\ workers[t].pc = "construct"
    /\ workers' = [workers EXCEPT ![t].pc = "store",
                                  ![t].built = SentenceTransformer(t)]
    /\ UNCHANGED <<pc, call, result, db, audit_logs, _MODEL>>

\* _MODEL = ...
StoreModel(t) ==
    /\ workers[t].pc = "store"
    /\ _MODEL' = workers[t].built
    /\ workers' = [workers EXCEPT ![t].pc = "return"]
    /\ UNCHANGED <<pc, call, result, db, audit_logs>>

\* return _MODEL
ReturnModel(t) ==
    /\ workers[t].pc = "return"
    /\ workers' = [workers EXCEPT ![t].pc = "done", ![t].returned = _MODEL]
    /\ UNCHANGED <<pc, call, result, db, audit_logs, _MODEL>>

NextLazy ==
    \E t \in Threads :
        TestModel(t) \/ ConstructModel(t) \/ StoreModel(t) \/ ReturnModel(t)

SpecLazy == InitLazy /\ [][NextLazy]_vars

-----------------------------------------------------------------------------
(* retrieve_chunks, rag.py lines 66-108, step by step: the test of the allowed
   list, the embedding request of _embed_query, the vector search.  result
   records the requests issued so far, in order. *)

\* the allowed lists of a call: ids of stored and of unknown documents
RetrieveAllowed == SUBSET {PyStr(Uuid(1)), PyStr(Uuid(2)), PyStr(Uuid(9))}

\* the blocking call that fails in a call of retrieve_chunks, if it is issued
RetrieveFaults == {"none", "embed", "search"}

Running(issued) == [status |-> "running", issued |-> issued]

Retrieved(rows, issued) == [status |-> "returned", rows |-> rows, issued |-> issued]

RetrieveRaised(issued) == [status |-> "raised", issued |-> issued]

InitRetrieve ==
    /\ pc = "idle"
    /\ call = NoCall
    /\ result = NoResult
    /\ db = NoDb
    /\ audit_logs = <<>>
    /\ _MODEL = NoModel
    /\ workers = <<>>

\* a call that goes on to the embedding request whatever the allowed list is
CallRetrieve_NoGuard ==
    /\ pc = "idle"
    /\ \E allowed_doc_ids \in RetrieveAllowed, top_k \in TopKs, fault \in RetrieveFaults :
          call' = [op |-> "retrieve_chunks", allowed_doc_ids |-> allowed_doc_ids,
                   top_k |-> top_k, fault |-> fault]
    /\ result' = Running(<<>>)
    /\ pc' = "embed"
    /\ UNCHANGED <<db, audit_logs, _MODEL, workers>>

\* lines 66-73: the call and its first statement, `if not allowed_doc_ids:
\* return []`
CallRetrieve ==
    /\ pc = "idle"
    /\ \E allowed_doc_ids \in RetrieveAllowed, top_k \in TopKs, fault \in RetrieveFaults :
          /\ call' = [op |-> "retrieve_chunks", allowed_doc_ids |-> allowed_doc_ids,
                      top_k |-> top_k, fault |-> fault]
          /\ IF allowed_doc_ids = {}
             THEN result' = Retrieved(<<>>, <<>>) /\ pc' = "done"
             ELSE result' = Running(<<>>) /\ pc' = "embed"
    /\ UNCHANGED <<db, audit_logs, _MODEL, workers>>

\* line 75: _embed_query posts the question to the embedding endpoint and
\* raises when the request fails
EmbedQuery ==
    /\ pc = "embed"
    /\ IF call.fault = "embed"
       THEN result' = RetrieveRaised(Append(result.issued, "embed")) /\ pc' = "done"
       ELSE result' = Running(Append(result.issued, "embed")) /\ pc' = "search"
    /\ UNCHANGED <<call, db, audit_logs, _MODEL, workers>>

\* lines 77-108: the vector search and the return of its rows
VectorSearch ==
    /\ pc = "search"
    /\ IF call.fault = "search"
       THEN result' = RetrieveRaised(Append(result.issued, "search"))
       ELSE result' = Retrieved(retrieve_chunks(db.docs, call.allowed_doc_ids, call.top_k),
                                Append(result.issued, "search"))
    /\ pc' = "done"
    /\ UNCHANGED <<call, db, audit_logs, _MODEL, workers>>

NextRetrieve == Ingest \/ CallRetrieve \/ EmbedQuery \/ VectorSearch

SpecRetrieve == InitRetrieve /\ [][NextRetrieve]_vars

-----------------------------------------------------------------------------
(* answer_with_llm, answering.py lines 100-183, step by step: the test of the
   candidate list, the call of provider.generate inside its try block, the
   handling of the text it returned.  result counts the invocations of
   provider.generate. *)

Generating(n) == [status |-> "running", generated |-> n]

InitGenerate ==
    /\ pc = "idle"
    /\ call = NoCall
    /\ result = NoResult
    /\ db = NoDb
    /\ audit_logs = <<>>
    /\ _MODEL = NoModel
    /\ workers = <<>>

\* lines 100-113: the call, and the return for an empty candidate list
CallAnswerWithLlm ==
    /\ pc = "idle"
    /\ \E rows \in RowLists, language \in Languages, provider \in Providers :
          /\ call' = [op |-> "answer_with_llm", rows |-> rows,
                      language |-> language, provider |-> provider]
          /\ IF rows = <<>>
             THEN /\ result' = With(answer_with_llm(rows, language, provider),
                                    "generated", 0)
                  /\ pc' = "done"
             ELSE /\ result' = Generating(0)
                  /\ pc' = "generate"
    /\ UNCHANGED <<db, audit_logs, _MODEL, workers>>

\* a try block that calls provider.generate a second time after a failure
Generate_Retry ==
    /\ pc = "generate"
    /\ IF call.provider.kind = "raise"
       THEN IF result.generated = 0
            THEN /\ result' = Generating(1)
                 /\ pc' = "generate"
            ELSE /\ result' = With(GenerateFailed(NormLanguage(call.language),
                                                  Meta(call.rows)),
                                   "generated", result.generated + 1)
                 /\ pc' = "done"
       ELSE /\ result' = Generating(result.generated + 1)
            /\ pc' = "parse"
    /\ UNCHANGED <<call, db, audit_logs, _MODEL, workers>>

\* lines 119-123: provider.generate is called; when it raises, the except
\* branch returns the refusal payload
Generate ==
    /\ pc = "generate"
    /\ IF call.provider.kind = "raise"
       THEN /\ result' = With(GenerateFailed(NormLanguage(call.language),
                                             Meta(call.rows)),
                              "generated", result.generated + 1)
            /\ pc' = "done"
       ELSE /\ result' = Generating(result.generated + 1)
            /\ pc' = "parse"
    /\ UNCHANGED <<call, db, audit_logs, _MODEL, workers>>

\* lines 125-183: the text is sanitized, parsed, normalised and gated
ParseAndGuard ==
    /\ pc = "parse"
    /\ result' = With(answer_with_llm(call.rows, call.language, call.provider),
                      "generated", result.generated)
    /\ pc' = "done"
    /\ UNCHANGED <<call, db, audit_logs, _MODEL, workers>>

NextGenerate == CallAnswerWithLlm \/ Generate \/ ParseAndGuard

SpecGenerate == InitGenerate /\ [][NextGenerate]_vars

-----------------------------------------------------------------------------
(* Properties of answer_with_llm *)

LlmDone == pc = "done" /\ call.op = "answer_with_llm"

LlmReturned == LlmDone /\ result.status = "returned"

\* the canonical refusal payload of section 4.10, written out per language
IsCanonicalRefusal(p, language) ==
    LET ar == language = "ar" IN
    /\ p.language = (IF ar THEN "ar" ELSE "en")
    /\ p.answer = S(IF ar THEN REFUSAL_TEXT_AR ELSE REFUSAL_TEXT_EN)
    /\ p.confidence = "low"
    /\ p.citations = <<>>
    /\ p.missing_info = S(IF ar THEN MISSING_INFO_AR ELSE MISSING_INFO_EN)
    /\ p.safe_next_steps = (IF ar THEN SAFE_NEXT_STEPS_AR ELSE SAFE_NEXT_STEPS_EN)

\* the call reached json.loads and it produced a JSON object
ParsedObject ==
    /\ LlmDone
    /\ call.rows # <<>>
    /\ call.provider.kind = "text"
    /\ JsonLoadsOk(Sanitize(call.provider.raw))
    /\ call.provider.data.t = "dict"

TrimmedAnswer == Strip(PyStr(DictGet(call.provider.data.answer, S(<<>>))))

ModelCitations == call.provider.data.citations

\* a citation of the model output is a JSON object and its doc_id is the
\* document id of some candidate row
CitesCandidate(c, rows) ==
    /\ c.t = "dict"
    /\ \E i \in 1..Len(rows) :
          PyStr(rows[i].document_id) = PyStr(DictGet(c.doc_id, S(<<>>)))

CitesNoCandidate(c, rows) ==
    /\ c.t = "dict"
    /\ \A i \in 1..Len(rows) :
          PyStr(rows[i].document_id) # PyStr(DictGet(c.doc_id, S(<<>>)))

\* a returned citation carries the metadata of the candidate row
FromRow(cit, row) ==
    /\ cit.doc_id = S(PyStr(row.document_id))
    /\ cit.document_version = row.document_version
    /\ cit.page_number = row.page_start
    /\ cit.start_offset = row.offset_start
    /\ cit.end_offset = row.offset_end
    /\ cit.source_uri = row.source_uri

\* C1: no fabricated citations: every citation of a returned payload has its
\* doc_id (the string form of the row's document id), document_version,
\* page_number, offsets and source_uri from one single candidate row passed
\* to answer_with_llm.
C1_NoFabricatedCitations ==
    LlmReturned =>
        \A i \in 1..Len(result.payload.citations) :
            \E j \in 1..Len(call.rows) :
                FromRow(result.payload.citations[i], call.rows[j])

\* an accepted payload with two citations, built from a model output whose
\* citation metadata was invented
C1_Witness ==
    /\ LlmReturned
    /\ Len(call.rows) = 2
    /\ Len(result.payload.citations) = 2
    /\ \A i \in 1..Len(ModelCitations.items) :
          ModelCitations.items[i].source_uri = S(<<"/docs/invented">>)

\* C2: for every non-empty candidate list and every text of the provider,
\* answer_with_llm returns without raising a payload that validates against
\* StrictRagResponse.
C2_AlwaysWellFormedPayload ==
    (LlmDone /\ call.rows # <<>> /\ call.provider.kind = "text") =>
        /\ result.status = "returned"
        /\ StrictRagResponse(result.payload)

\* C3 as stated: one citation that matches no candidate makes a returning
\* call return the canonical refusal.
C3_StrictPolicy ==
    (/\ ParsedObject
     /\ ModelCitations.t = "list"
     /\ \E i \in 1..Len(ModelCitations.items) :
           CitesNoCandidate(ModelCitations.items[i], call.rows)
     /\ result.status = "returned")
    => IsCanonicalRefusal(result.payload, call.language)

\* C3 amended: when every citation of the model output is an object that
\* matches no candidate row the call returns the canonical refusal; a
\* citation that matches no candidate is dropped, so every citation of a
\* returned payload is the normalisation of a model citation that does name
\* a candidate's document.
C3_LenientPolicy ==
    /\ (/\ ParsedObject
        /\ ModelCitations.t = "list"
        /\ \A i \in 1..Len(ModelCitations.items) :
              CitesNoCandidate(ModelCitations.items[i], call.rows))
       => (/\ result.status = "returned"
           /\ IsCanonicalRefusal(result.payload, call.language))
    /\ LlmReturned =>
          \A i \in 1..Len(result.payload.citations) :
             \E k \in 1..Len(ModelCitations.items) :
                /\ CitesCandidate(ModelCitations.items[k], call.rows)
                /\ result.payload.citations[i].doc_id
                      = S(PyStr(DictGet(ModelCitations.items[k].doc_id, S(<<>>))))

\* a model output citing one candidate and one unknown document, accepted
\* with the single matching citation
C3_Witness ==
    /\ ParsedObject
    /\ ModelCitations.t = "list"
    /\ \E i \in 1..Len(ModelCitations.items) :
          CitesNoCandidate(ModelCitations.items[i], call.rows)
    /\ \E i \in 1..Len(ModelCitations.items) :
          CitesCandidate(ModelCitations.items[i], call.rows)
    /\ result.status = "returned"
    /\ Len(result.payload.citations) = 1

\* C7: when provider.generate raises, answer_with_llm returns the canonical
\* refusal payload of the requested language and meta lists the ids of the
\* retrieved chunks.
C7_GenerateFailureRefused ==
    (LlmDone /\ call.provider.kind = "raise") =>
        /\ result.status = "returned"
        /\ IsCanonicalRefusal(result.payload, call.language)
        /\ Len(result.meta.retrieved_chunk_ids) = Len(call.rows)
        /\ \A i \in 1..Len(call.rows) :
              result.meta.retrieved_chunk_ids[i] = S(PyStr(call.rows[i].chunk_id))

C7_Witness ==
    /\ LlmDone
    /\ call.provider.kind = "raise"
    /\ Len(call.rows) = 2
    /\ call.language = "ar"
    /\ result.status = "returned"

\* C9: a model output that is not valid JSON, not an object, whose citations
\* are missing, not a list or empty, or whose answer is empty after trimming
\* gets the canonical refusal payload of the requested language.
C9_MalformedOutputRefused ==
    (/\ LlmDone
     /\ call.rows # <<>>
     /\ call.provider.kind = "text"
     /\ \/ ~JsonLoadsOk(Sanitize(call.provider.raw))
        \/ call.provider.data.t # "dict"
        \/ ModelCitations.t # "list"
        \/ ModelCitations.items = <<>>
        \/ TrimmedAnswer = <<>>)
    => (/\ result.status = "returned"
        /\ IsCanonicalRefusal(result.payload, call.language))

\* C10: a trimmed answer equal to the English or the Arabic refusal string
\* gets the canonical refusal payload of the requested language, without
\* citations, whatever citations the model supplied.
C10_RefusalTextRefused ==
    (ParsedObject /\ TrimmedAnswer \in {REFUSAL_TEXT_EN, REFUSAL_TEXT_AR}) =>
        /\ result.status = "returned"
        /\ IsCanonicalRefusal(result.payload, call.language)
        /\ result.payload.citations = <<>>

\* the Arabic refusal string in answer to an English request, with a
\* citation that matches a candidate
C10_Witness ==
    /\ ParsedObject
    /\ TrimmedAnswer = REFUSAL_TEXT_AR
    /\ call.language = "en"
    /\ ModelCitations.t = "list"
    /\ \E i \in 1..Len(ModelCitations.items) :
          CitesCandidate(ModelCitations.items[i], call.rows)
    /\ result.status = "returned"
    /\ result.payload.answer = S(REFUSAL_TEXT_EN)

\* the text is wrapped in a fenced block: it opens and closes with a fence
IsWrapped(s) == Len(s) >= 3 /\ s[1] = FENCE /\ s[Len(s)] = FENCE

\* the content of the fenced block that wraps s, without the language tag
FencedContent(s) ==
    Strip(SubSeq(s, IF s[2] = "json" THEN 3 ELSE 2, Len(s) - 1))

\* the text the contract of the sanitizer leaves: the paired reasoning blocks
\* removed, then an unmatched closing delimiter at the start removed, then the
\* content of the fenced block if the text is wrapped in one, and nothing else
\* touched
ExpectedClean(raw) ==
    LET c1 == Strip(RemoveThink(raw))
        c2 == IF c1 # <<>> /\ Head(c1) = "</think>" THEN Strip(Tail(c1)) ELSE c1
    IN  IF IsWrapped(c2) THEN FencedContent(c2) ELSE c2

\* C21: the sanitizer removes every paired reasoning block with its content
\* and an unmatched closing delimiter at the start, keeps only the content of
\* a fenced block that wraps the remaining text, and alters nothing outside
\* these wrapper markers: the text handed to the JSON parser is that text, and
\* the output is parsed iff that text is one JSON document.
C21_Sanitizer ==
    (LlmDone /\ call.rows # <<>> /\ call.provider.kind = "text") =>
        /\ Sanitize(call.provider.raw) = ExpectedClean(call.provider.raw)
        /\ Strip(ExpectedClean(call.provider.raw)) \in JsonDocuments
              => (\/ result.status = "raised"
                  \/ result.payload.answer.w \notin {REFUSAL_TEXT_EN, REFUSAL_TEXT_AR}
                  \/ ~(/\ call.provider.data.t = "dict"
                       /\ TrimmedAnswer \notin {REFUSAL_TEXT_EN, REFUSAL_TEXT_AR, <<>>}
                       /\ ModelCitations.t = "list"
                       /\ \E i \in 1..Len(ModelCitations.items) :
                             CitesCandidate(ModelCitations.items[i], call.rows)))

\* C23: when no citation of the model output has a doc_id equal to the
\* document id of a candidate row, answer_with_llm returns the canonical
\* refusal payload of the requested language.
C23_UnmatchedRefused ==
    (/\ ParsedObject
     /\ ModelCitations.t = "list"
     /\ \A i \in 1..Len(ModelCitations.items) :
           ~CitesCandidate(ModelCitations.items[i], call.rows))
    => (/\ result.status = "returned"
        /\ IsCanonicalRefusal(result.payload, call.language))

\* a citation of the model output is an object whose quote, if it has one,
\* is a string
WellFormedCitation(c) == c.t = "dict" /\ c.quote.t \in {"str", "none", "missing"}

\* the model output answers, with a non-empty answer that is no refusal
\* sentence, from the single candidate: its citations are well formed and
\* one of them names the candidate's document
AnswersFromSingleChunk ==
    /\ ParsedObject
    /\ Len(call.rows) = 1
    /\ TrimmedAnswer \notin {<<>>, REFUSAL_TEXT_EN, REFUSAL_TEXT_AR}
    /\ ModelCitations.t = "list"
    /\ \A i \in 1..Len(ModelCitations.items) : WellFormedCitation(ModelCitations.items[i])
    /\ \E i \in 1..Len(ModelCitations.items) :
          CitesCandidate(ModelCitations.items[i], call.rows)

\* C24: with one candidate at distance d that the model cites under a
\* non-empty, non-refusal answer, the payload carries that answer and exactly
\* one citation, of the candidate; with 1 - d >= 0.55 the confidence is medium
\* or high and missing_info is absent, with 1 - d < 0.55 the confidence is low
\* and missing_info is present.
C24_SingleCitation ==
    AnswersFromSingleChunk =>
        /\ result.status = "returned"
        /\ LET p == result.payload
               d == call.rows[1].distance.n
           IN  /\ p.answer = S(TrimmedAnswer)
               /\ Len(p.citations) = 1
               /\ FromRow(p.citations[1], call.rows[1])
               /\ 100 - d >= 55 => p.confidence \in {"medium", "high"} /\ p.missing_info = None
               /\ 100 - d < 55 => (/\ p.confidence = "low"
                                   /\ p.missing_info.t = "str"
                                   /\ p.missing_info.w # <<>>)

\* the two runs of the test suite: a candidate at distance 0.2 ...
C24_Witness ==
    /\ AnswersFromSingleChunk
    /\ call.rows[1].distance.n = 20
    /\ result.status = "returned"
    /\ result.payload.confidence = "medium"
    /\ result.payload.missing_info = None
    /\ Len(result.payload.citations) = 1

\* ... and a candidate at distance 0.95
C24_WitnessWeak ==
    /\ AnswersFromSingleChunk
    /\ call.rows[1].distance.n = 95
    /\ result.status = "returned"
    /\ result.payload.confidence = "low"
    /\ result.payload.missing_info # None
    /\ Len(result.payload.citations) = 1

\* the candidate lists that are permutations of rows
RowPermutations(rows) ==
    {[i \in 1..Len(rows) |-> rows[p[i]]] :
        p \in {q \in [1..Len(rows) -> 1..Len(rows)] :
                  \A i, j \in 1..Len(rows) : i # j => q[i] # q[j]}}

\* how a call of answer_with_llm ends: with an exception, with a refusal
\* payload, or with an accepted answer
Outcome(res) ==
    IF res.status = "raised" THEN "raised"
    ELSE IF res.payload.answer.w \in {REFUSAL_TEXT_EN, REFUSAL_TEXT_AR} THEN "refused"
    ELSE "accepted"

\* C27: rerank_chunks returns the candidate list unchanged, and a call of
\* answer_with_llm with any permutation of the candidate list and the same
\* model output ends as the call with the list itself: accepted, or refused.
C27_RerankerReplaceable ==
    LlmDone =>
        /\ rerank_chunks(call.rows) = call.rows
        /\ \A permuted \in RowPermutations(call.rows) :
              Outcome(answer_with_llm(permuted, call.language, call.provider))
                  = Outcome(result)

\* the metadata a model output may carry next to answer, doc_id, page_number
\* and quote: forged values, or none at all
MetadataProfiles ==
    {[language |-> S(<<"fr">>), confidence |-> S(<<"high">>),
      missing_info |-> S(<<"nothing">>), safe_next_steps |-> S(<<"none">>),
      doc_title |-> S(<<"Forged">>), document_version |-> S(<<"v0">>),
      start_offset |-> I(999), end_offset |-> I(1000),
      source_uri |-> S(<<"/docs/forged">>)],
     [language |-> None, confidence |-> S(<<"low">>),
      missing_info |-> None, safe_next_steps |-> None,
      doc_title |-> None, document_version |-> None,
      start_offset |-> None, end_offset |-> None,
      source_uri |-> None]}

\* the citation with the metadata of the profile, its doc_id, page_number and
\* quote kept
CitationWithMetadata(c, m) ==
    IF c.t # "dict" THEN c
    ELSE [t |-> "dict", doc_id |-> c.doc_id, page_number |-> c.page_number,
          quote |-> c.quote, doc_title |-> m.doc_title,
          document_version |-> m.document_version, start_offset |-> m.start_offset,
          end_offset |-> m.end_offset, source_uri |-> m.source_uri]

\* the model output with the metadata of the profile, its answer and the
\* doc_id, page_number and quote of each citation kept
WithMetadata(data, m) ==
    [t |-> "dict", answer |-> data.answer,
     citations |-> [t |-> data.citations.t,
                    items |-> [i \in 1..Len(data.citations.items) |->
                                  CitationWithMetadata(data.citations.items[i], m)]],
     language |-> m.language, confidence |-> m.confidence,
     missing_info |-> m.missing_info, safe_next_steps |-> m.safe_next_steps]

\* C29: for the same candidates and request, a model output that agrees with
\* the one of the call on answer and, citation by citation, on doc_id,
\* page_number and quote ends the call in the same way with the same payload,
\* whatever metadata it carries; the language of a returned payload is the
\* requested one, ar if ar was requested and en otherwise.
C29_MetadataIgnored ==
    /\ ParsedObject =>
          \A m \in MetadataProfiles :
             answer_with_llm(call.rows, call.language,
                             Text(call.provider.raw, WithMetadata(call.provider.data, m)))
                = result
    /\ LlmReturned =>
          result.payload.language = (IF call.language = "ar" THEN "ar" ELSE "en")

\* an accepted answer to a request in a language other than ar and en: the
\* payload is in en and its citation has the source_uri of the candidate, not
\* the one the model supplied
C29_Witness ==
    /\ ParsedObject
    /\ LlmReturned
    /\ call.language = "fr"
    /\ result.payload.language = "en"
    /\ Len(result.payload.citations) = 1
    /\ ModelCitations.items[1].source_uri = S(<<"/docs/invented">>)
    /\ result.payload.citations[1].source_uri = call.rows[1].source_uri
    /\ \A m \in MetadataProfiles :
          WithMetadata(call.provider.data, m) # call.provider.data

\* C13: in every payload answer_with_llm returns, accepted or refusal,
\* missing_info is present, in the language of the payload, if and only if
\* the confidence is low.
C13_MissingInfoIffLow ==
    LlmReturned =>
        LET p == result.payload IN
        /\ p.confidence = "low" <=> p.missing_info # None
        /\ p.missing_info # None =>
              p.missing_info = S(IF p.language = "ar" THEN MISSING_INFO_AR
                                 ELSE MISSING_INFO_EN)

\* an accepted Arabic payload of low confidence
C13_Witness ==
    /\ LlmReturned
    /\ call.language = "ar"
    /\ result.payload.citations # <<>>
    /\ result.payload.confidence = "low"
    /\ result.payload.missing_info = S(MISSING_INFO_AR)

\* C14: in every payload answer_with_llm returns, the citations are non-empty
\* if and only if the answer is not one of the two refusal sentences: an
\* accepted payload has a non-empty answer that is neither sentence and at
\* least one citation, a refusal payload has the refusal sentence of its
\* language and no citation.
C14_CitationsIffAnswered ==
    LlmReturned =>
        LET p == result.payload IN
        /\ p.answer.t = "str"
        /\ p.citations # <<>> <=> p.answer.w \notin {REFUSAL_TEXT_EN, REFUSAL_TEXT_AR}
        /\ p.citations # <<>> => p.answer.w # <<>>
        /\ p.citations = <<>> =>
              p.answer.w = (IF p.language = "ar" THEN REFUSAL_TEXT_AR
                            ELSE REFUSAL_TEXT_EN)

\* an accepted payload: the trimmed answer of the model with one citation
C14_Witness ==
    /\ ParsedObject
    /\ result.status = "returned"
    /\ TrimmedAnswer = Strip(GoodAnswer)
    /\ result.payload.answer = S(Strip(GoodAnswer))
    /\ Len(result.payload.citations) = 1

\* C17: every citation of every returned payload has a quote of at most 25
\* whitespace-separated words, whether the quote is the model's or, when the
\* model gave none, the text of the matched chunk.
C17_QuoteTruncated ==
    LlmReturned =>
        \A i \in 1..Len(result.payload.citations) :
            Len(Split(result.payload.citations[i].quote.w)) <= 25

\* a chunk text of 26 words, cited without a quote, is cut to 25 words
C17_Witness ==
    /\ ParsedObject
    /\ result.status = "returned"
    /\ Len(ModelCitations.items) = 1
    /\ ModelCitations.items[1].quote = Missing
    /\ Len(call.rows) = 1
    /\ Len(Split(call.rows[1].text.w)) = 26
    /\ Len(result.payload.citations) = 1
    /\ Len(Split(result.payload.citations[1].quote.w)) = 25

-----------------------------------------------------------------------------
(* Properties of the /rag/answer handler *)

AnswerDone == pc = "done" /\ call.op = "answer"

\* the documents section 4.1 makes visible to a caller
Visible(docs, role_names, attributes) ==
    {d \in DOMAIN docs :
        /\ docs[d].status = "approved"
        /\ \E i \in 1..Len(role_names) : role_names[i] \in docs[d].acl
        /\ \A tag \in docs[d].access_tags : tag \in attributes}

\* C4: for a non-empty role set and any attributes mapping, the accessible
\* ids are exactly those of the approved documents with a grant to a supplied
\* role whose access_tags are contained in the attributes.
C4_AccessRule ==
    (/\ AnswerDone
     /\ call.request.role_names # <<>>
     /\ result.failed # "access_query")
    => result.allowed_doc_ids
          = {PyStr(Uuid(d)) :
                d \in Visible(db.docs, call.request.role_names, call.request.attributes)}

C30_AccessChecksAgree ==
    (AnswerDone /\ result.failed # "access_query") =>
        result.allowed_doc_ids
            = Range(list_documents(db.docs, call.request.role_names,
                                   call.request.attributes))

\* the failing call of the run was issued
FaultIssued ==
    \/ call.fault = "access_query" /\ call.request.role_names # <<>>
    \/ call.fault \in {"embed", "search"} /\ result.allowed_doc_ids # {}

\* C6: when the access query, the embedding call or the vector query fails,
\* the handler returns the canonical refusal payload of the requested
\* language.
C6_TransportFailureRefused ==
    (AnswerDone /\ FaultIssued) =>
        /\ result.status = 200
        /\ IsCanonicalRefusal(result.payload, call.request.language)

-----------------------------------------------------------------------------
(* Properties of the /chat handler *)

ChatDone == pc = "done" /\ call.op = "chat"

\* C8: when the RAG service returned a payload and ensure_user or the
\* audit_logs insert fails, the caller still receives that payload.
C8_AuditFailureSwallowed ==
    (ChatDone /\ call.rag.kind = "ok" /\ call.fault # "none") =>
        /\ result.status = 200
        /\ result.payload = call.rag.data

\* the last min(6, n) turns of the history, in order, labelled by role
ExpectedTurns(history) ==
    LET n == Len(history)
        m == IF n < 6 THEN n ELSE 6
    IN  [i \in 1..m |->
            [label |-> IF history[n - m + i].role = "user" THEN "User" ELSE "Assistant",
             text |-> history[n - m + i].text]]

\* C19: the user prompt sent to the model for a /rag/answer request with n
\* history turns contains exactly the last min(6, n) turns, in their order,
\* each labelled by its role.
C19_HistoryReachesPrompt ==
    (AnswerDone /\ result.prompt.sent) =>
        result.prompt.history = ExpectedTurns(call.request.history)

-----------------------------------------------------------------------------
(* Properties of the scoring *)

ScoreDone == pc = "done" /\ call.op = "score"

CompareDone == pc = "done" /\ call.op = "compare"

\* the candidates of rows a citation of the list was normalised from
MatchedCandidates(rows, normalized) ==
    {i \in 1..Len(rows) :
        \E k \in 1..Len(normalized) :
            /\ normalized[k].doc_id.w = PyStr(rows[i].document_id)
            /\ normalized[k].page_number = rows[i].page_start
            /\ normalized[k].start_offset = rows[i].offset_start}

\* clamp(1 - distance, 0, 1) in hundredths
ClampedSimilarity(d) ==
    LET lower == IF 100 - d > 0 THEN 100 - d ELSE 0
    IN  IF lower < 100 THEN lower ELSE 100

Defined(rows, set) == {i \in set : rows[i].distance.t # "none"}

RECURSIVE SimilaritySum(_, _)
SimilaritySum(rows, set) ==
    IF set = {} THEN 0
    ELSE LET i == CHOOSE x \in set : TRUE
         IN  ClampedSimilarity(rows[i].distance.n) + SimilaritySum(rows, set \ {i})

\* avg >= threshold for avg the mean over the defined distances, 0 without any
MeanAtLeast(rows, set, threshold) ==
    IF Defined(rows, set) = {}
    THEN 0 >= threshold
    ELSE SimilaritySum(rows, Defined(rows, set))
             >= threshold * Cardinality(Defined(rows, set))

ConfidenceRule(n, rows, set) ==
    IF n >= 2 /\ MeanAtLeast(rows, set, 70) THEN "high"
    ELSE IF n >= 1 /\ MeanAtLeast(rows, set, 55) THEN "medium"
    ELSE "low"

Rank(confidence) ==
    CASE confidence = "low" -> 0
      [] confidence = "medium" -> 1
      [] confidence = "high" -> 2

\* mean of the first list <= mean of the second list
MeanLeq(rows1, rows2) ==
    LET all1 == Defined(rows1, 1..Len(rows1))
        all2 == Defined(rows2, 1..Len(rows2))
        s1 == SimilaritySum(rows1, all1)
        s2 == SimilaritySum(rows2, all2)
        c1 == IF all1 = {} THEN 1 ELSE Cardinality(all1)
        c2 == IF all2 = {} THEN 1 ELSE Cardinality(all2)
    IN  s1 * c2 <= s2 * c1

\* C12: confidence is monotonic: when the first input has no more citations
\* and no larger mean similarity than the second, its confidence is not above
\* the second's in the order low < medium < high.
C12_Monotonic ==
    (/\ CompareDone
     /\ Len(call.citations1) <= Len(call.citations2)
     /\ MeanLeq(call.rows1, call.rows2))
    => Rank(result.confidence1) <= Rank(result.confidence2)

\* both coordinates grow strictly and the confidence goes from medium to high
C12_Witness ==
    /\ CompareDone
    /\ Len(call.citations1) < Len(call.citations2)
    /\ MeanLeq(call.rows1, call.rows2)
    /\ ~MeanLeq(call.rows2, call.rows1)
    /\ result.confidence1 = "medium"
    /\ result.confidence2 = "high"

\* the (doc_id, page_number) pair of a normalised citation
Pair(cit) == <<cit.doc_id, cit.page_number>>

\* the model citations, by position, whose match among the candidates gives
\* the pair of the normalised citation cit
Occurrences(cit) ==
    {k \in 1..Len(call.citations) :
        LET m == _find_matching_row(call.citations[k], call.rows)
        IN  /\ m # 0
            /\ Pair(cit) = <<S(PyStr(call.rows[m].document_id)), call.rows[m].page_start>>}

FirstOccurrence(cit) == CHOOSE k \in Occurrences(cit) : \A j \in Occurrences(cit) : k <= j

\* C25: normalize_citations returns no two citations with the same
\* (doc_id, page_number) pair; every matched model citation has its pair in
\* the list, and the citations stand in the order in which their pairs first
\* occur in the model's list; the list of matched rows has the same length and
\* the i-th citation is built from the i-th matched row.
C25_Deduplicated ==
    ScoreDone =>
        LET n == result.normalized IN
        /\ \A i, j \in 1..Len(n) : i # j => Pair(n[i]) # Pair(n[j])
        /\ \A i \in 1..Len(n) : Occurrences(n[i]) # {}
        /\ \A k \in 1..Len(call.citations) :
              _find_matching_row(call.citations[k], call.rows) # 0
                 => \E i \in 1..Len(n) : k \in Occurrences(n[i])
        /\ \A i, j \in 1..Len(n) :
              i < j => FirstOccurrence(n[i]) < FirstOccurrence(n[j])
        /\ Len(result.used_rows) = Len(n)
        /\ \A i \in 1..Len(n) : FromRow(n[i], result.used_rows[i])

\* a citation of page 2 of document 1, matched by document alone to its
\* page-1 candidate, followed by a citation of that page: one citation is
\* returned
C25_Witness ==
    /\ ScoreDone
    /\ Len(call.rows) = 2
    /\ Len(call.citations) = 2
    /\ call.citations[1].page_number = I(2)
    /\ call.citations[2].page_number = I(1)
    /\ \A k \in 1..2 : _find_matching_row(call.citations[k], call.rows) = 2
    /\ Len(result.normalized) = 1
    /\ result.used_rows = <<call.rows[2]>>

MatchDone == pc = "done" /\ call.op = "match"

\* the candidates, by position, of the document the citation names
SameDocument ==
    {i \in 1..Len(call.rows) :
        S(PyStr(call.rows[i].document_id)) = call.citation.doc_id}

\* those of them that start on the page the citation names
SameDocumentAndPage ==
    {i \in SameDocument :
        /\ call.citation.page_number.t = "int"
        /\ call.rows[i].page_start = call.citation.page_number}

\* C26: _find_matching_row returns the first candidate whose document id is
\* the citation's doc_id and whose page_start is its page_number; if there is
\* none, the first candidate whose document id is the citation's doc_id; and
\* no candidate when no document id matches.
C26_MatchingRule ==
    MatchDone =>
        /\ SameDocumentAndPage # {} =>
              /\ result.row \in SameDocumentAndPage
              /\ \A i \in SameDocumentAndPage : result.row <= i
        /\ (SameDocumentAndPage = {} /\ SameDocument # {}) =>
              /\ result.row \in SameDocument
              /\ \A i \in SameDocument : result.row <= i
        /\ SameDocument = {} => result.row = 0

\* the second candidate has the cited page, the first only the cited document
C26_Witness ==
    /\ MatchDone
    /\ Len(call.rows) = 2
    /\ SameDocument = {1, 2}
    /\ SameDocumentAndPage = {2}
    /\ result.row = 2

\* no candidate has the cited page: the first candidate of the document
C26_WitnessFallback ==
    /\ MatchDone
    /\ Len(call.rows) = 2
    /\ SameDocument = {2}
    /\ SameDocumentAndPage = {}
    /\ result.row = 2

-----------------------------------------------------------------------------
(* Properties of the schema gate *)

GateDone == pc = "done" /\ call.op = "validate_or_refuse"

\* the payload has every required field with a value of its type, valid
\* enums, and no field the schema does not name, in itself or in a citation
Conforms(p) ==
    LET keys == DOMAIN p
        CitationOk(c) ==
            /\ \A f \in {"doc_title", "doc_id", "document_version", "quote", "source_uri"} :
                  f \in DOMAIN c /\ c[f].t = "str"
            /\ \A f \in {"page_number", "start_offset", "end_offset"} :
                  f \in DOMAIN c => c[f].t \in {"int", "none"}
            /\ \A f \in DOMAIN c :
                  f \in {"doc_title", "doc_id", "document_version", "quote", "source_uri",
                         "page_number", "start_offset", "end_offset"}
    IN  /\ \A f \in keys : f \in {"language", "answer", "confidence", "citations",
                                  "missing_info", "safe_next_steps"}
        /\ \A f \in {"language", "answer", "confidence", "citations", "safe_next_steps"} :
              f \in keys
        /\ p.language \in {"en", "ar"}
        /\ p.answer.t = "str"
        /\ p.confidence \in {"high", "medium", "low"}
        /\ \A i \in 1..Len(p.citations) : CitationOk(p.citations[i])
        /\ "missing_info" \in keys => p.missing_info.t \in {"str", "none"}
        /\ \A i \in 1..Len(p.safe_next_steps) : p.safe_next_steps[i].t = "str"

\* C15: validate_or_refuse returns its input unchanged when the payload
\* conforms to StrictRagResponse and otherwise the canonical refusal payload
\* of the requested language, and the canonical refusal payload of either
\* language passes the same validation.
C15_SchemaGate ==
    GateDone =>
        /\ Conforms(call.payload) => result.payload = call.payload
        /\ ~Conforms(call.payload) =>
              IsCanonicalRefusal(result.payload, call.language)
        /\ \A language \in {"en", "ar"} :
              /\ Conforms(build_refusal_payload(language))
              /\ IsCanonicalRefusal(build_refusal_payload(language), language)

\* an accepted payload whose second citation carries a field the schema does
\* not have is replaced by the Arabic refusal
C15_Witness ==
    /\ GateDone
    /\ call.language = "ar"
    /\ "citations" \in DOMAIN call.payload
    /\ Len(call.payload.citations) = 2
    /\ "score" \in DOMAIN call.payload.citations[2]
    /\ result.payload = build_refusal_payload("ar")

\* C16: the gate returns the canonical refusal payload of a language
\* unchanged, for en and for ar, and applying the gate to its own result
\* changes nothing, whatever the payload.
C16_GateIdempotent ==
    GateDone =>
        /\ \A language \in {"en", "ar"} :
              (call.language = language
                  /\ call.payload = build_refusal_payload(language))
              => result.payload = build_refusal_payload(language)
        /\ result.again = result.payload

\* the Arabic refusal payload goes through the gate twice unchanged
C16_Witness ==
    /\ GateDone
    /\ call.language = "ar"
    /\ call.payload = build_refusal_payload("ar")
    /\ result.payload = call.payload
    /\ result.again = call.payload

-----------------------------------------------------------------------------
(* Properties of the row filters *)

FilterDone == pc = "done" /\ call.op = "row_filter"

\* the row is of a document the caller may read and the document is approved
MayReach(row, allowed_doc_ids) ==
    /\ PyStr(row.document_id) \in allowed_doc_ids
    /\ row.document_status = "approved"

\* C18: every candidate row that reaches the prompt and the model has a
\* document id in the caller's accessible set and the status approved,
\* whatever rows the retriever returned; the filters keep exactly the rows
\* that satisfy this, in their relative order.
C18_RowFilter ==
    FilterDone =>
        LET kept == {i \in 1..Len(call.retrieved) :
                        MayReach(call.retrieved[i], call.allowed_doc_ids)}
            Position(i) == Cardinality({j \in kept : j <= i})
        IN  /\ \A k \in 1..Len(result.rows) :
                  MayReach(result.rows[k], call.allowed_doc_ids)
            /\ Len(result.rows) = Cardinality(kept)
            /\ \A i \in kept : result.rows[Position(i)] = call.retrieved[i]

\* the retriever hands over a row of a document that is not approved before
\* a row the caller may read: only the second reaches the prompt
C18_Witness ==
    /\ FilterDone
    /\ Len(call.retrieved) = 2
    /\ PyStr(call.retrieved[1].document_id) \in call.allowed_doc_ids
    /\ call.retrieved[1].document_status = "draft"
    /\ MayReach(call.retrieved[2], call.allowed_doc_ids)
    /\ result.rows = <<call.retrieved[2]>>

-----------------------------------------------------------------------------
(* Properties of retrieve_chunks *)

RetrieveCalled == call.op = "retrieve_chunks"

\* C22: when the allowed list is empty, retrieve_chunks returns an empty
\* candidate list, and at no point of the call has an embedding request or a
\* vector search been issued.
C22_ShortCircuit ==
    (RetrieveCalled /\ call.allowed_doc_ids = {}) =>
        /\ pc = "done"
        /\ result.status = "returned"
        /\ result.rows = <<>>
        /\ result.issued = <<>>

\* a call with an empty allowed list against a store that holds an approved,
\* indexed document, with an embedding endpoint that would fail
C22_Witness ==
    /\ RetrieveCalled
    /\ pc = "done"
    /\ call.allowed_doc_ids = {}
    /\ call.fault = "embed"
    /\ \E d \in DOMAIN db.docs : db.docs[d].status = "approved" /\ db.docs[d].indexed
    /\ result = Retrieved(<<>>, <<>>)

-----------------------------------------------------------------------------
(* Properties of the call of provider.generate *)

LlmCalled == call.op = "answer_with_llm"

\* C28: at every point of a call of answer_with_llm provider.generate has
\* been invoked at most once; never with an empty candidate list; exactly
\* once when a call with a non-empty list is over, also when the invocation
\* failed.
C28_NoRetry ==
    LlmCalled =>
        /\ result.generated <= 1
        /\ call.rows = <<>> => result.generated = 0 /\ pc = "done"
        /\ (call.rows # <<>> /\ pc = "done") => result.generated = 1

\* a call whose single invocation of provider.generate failed, over with the
\* refusal payload
C28_Witness ==
    /\ LlmCalled
    /\ pc = "done"
    /\ Len(call.rows) = 2
    /\ call.provider.kind = "raise"
    /\ result.generated = 1
    /\ result.status = "returned"
    /\ result.payload.citations = <<>>

-----------------------------------------------------------------------------
(* Properties of the lazy initialisation *)

Constructed == {t \in DOMAIN workers : workers[t].built # NoModel}

Finished == {t \in DOMAIN workers : workers[t].pc = "done"}

\* C20: whatever the interleaving of the concurrent first calls of
\* _get_model, the model is constructed exactly once and every caller
\* receives the same fully constructed handle.
C20_SingleInitialization ==
    /\ Cardinality(Constructed) <= 1
    /\ Finished # {} => Cardinality(Constructed) = 1
    /\ \A t \in Finished : workers[t].returned.complete
    /\ \A t, u \in Finished : workers[t].returned = workers[u].returned

====
